---- MODULE Spec2Model ----
(***************************************************************************)
(* Model of classifiers_evaluation.py: the perceptron training-curve       *)
(* pipeline (run_perceptron), the ellipse geometry (get_ellipse), the      *)
(* Gaussian classifier comparison (compare_gaussian_classifiers) and the   *)
(* script driver (__main__).                                               *)
(*                                                                         *)
(* Real numbers are fixed-point integers in units of 1/Scale.  An angle is *)
(* carried as the pair of its cosine and sine, the only two things the     *)
(* code ever takes of theta.  Strings are TLA+ strings; a figure is a      *)
(* record of its titles and the sequence of its traces.                    *)
(***************************************************************************)
EXTENDS Integers, Sequences, FiniteSets, TLC

VARIABLES
  pc,            \* position of the script
  seeded,        \* number of calls of np.random.seed so far
  it,            \* position of the running for loop in its list
  n, f,          \* loop variables of the dataset loops (label, file name)
  X, y,          \* design matrix and labels of the dataset loaded last
  losses,        \* the list the callback appends to (line 41)
  coefs,         \* the perceptron's coefficients (intercept first)
  iter,          \* the perceptron's fit iteration counter
  lda, gnb,      \* the fitted LDA and Gaussian Naive Bayes models
  lda_prediction, gnb_prediction,
  lda_accuracy, gnb_accuracy,
  i,             \* index of the ellipse loop (line 127)
  fig,           \* the figure under construction
  artifacts,     \* the image files written so far, in order
  error,         \* the exception that ended the run, if any
  calls,         \* history: every call of loss_callback, as <<n, value>>
  log,           \* history: the steps executed, as <<file, step>>
  mu, cov, shift,          \* inputs of the stand-alone get_ellipse calls
  curve, curveShifted      \* their results

pipeVars == <<pc, seeded, it, n, f, X, y, losses, coefs, iter, lda, gnb,
              lda_prediction, gnb_prediction, lda_accuracy, gnb_accuracy,
              i, fig, artifacts, error, calls, log>>
geomVars == <<mu, cov, shift, curve, curveShifted>>
vars == <<pipeVars, geomVars>>

\* Values of names not bound yet (the code never reads them in that state).
NoCurve == [x |-> <<>>, y |-> <<>>, mode |-> "", marker_color |-> "",
            marker_symbol |-> "", name |-> ""]
NoModel == [classes_ |-> <<>>, mu_ |-> <<>>, cov_ |-> <<>>, vars_ |-> <<>>]
NoFig   == [subplot_titles |-> <<>>, traces |-> <<>>, title |-> "",
            xaxis_title |-> "", yaxis_title |-> "", legend_title |-> "",
            scaleanchor |-> "", scaleratio |-> 0,
            width |-> 0, height |-> 0, showlegend |-> TRUE]

\* go.Scatter(x=, y=, mode=, marker=dict(color=, symbol=), name=)
go_Scatter(xs, ys, mode, color, symbol, name) ==
  [x |-> xs, y |-> ys, mode |-> mode, marker_color |-> color,
   marker_symbol |-> symbol, name |-> name]

-----------------------------------------------------------------------------
(* Fixed-point arithmetic standing for numpy's float64.                    *)

Scale == 1000

Mul(a, b) == (a * b) \div Scale

Abs(a) == IF a < 0 THEN -a ELSE a

RECURSIVE SqrtSearch(_, _, _)
SqrtSearch(v, lo, hi) ==
  IF lo >= hi THEN lo
  ELSE LET mid == (lo + hi + 1) \div 2
       IN  IF mid * mid <= v THEN SqrtSearch(v, mid, hi)
           ELSE SqrtSearch(v, lo, mid - 1)

\* floor of the square root of a non-negative integer (46340 * 46340 is
\* the largest square below 2^31)
ISqrt(v) == SqrtSearch(v, 0, IF v < 46340 THEN v ELSE 46340)

-----------------------------------------------------------------------------
(* get_ellipse, lines 62-81.                                               *)

NPoints == 100

\* np.cos(t) and np.sin(t) for t = np.linspace(0, 2 * pi, 100), in 1/Scale
CosT ==
  <<
    1000, 998, 992, 982, 968, 950, 928, 903, 874, 841,
    805, 766, 724, 679, 631, 580, 527, 472, 415, 357,
    297, 236, 174, 111, 48, -16, -79, -142, -205, -266,
    -327, -386, -444, -500, -554, -606, -655, -701, -745, -786,
    -824, -858, -889, -916, -940, -959, -975, -987, -995, -999,
    -999, -995, -987, -975, -959, -940, -916, -889, -858, -824,
    -786, -745, -701, -655, -606, -554, -500, -444, -386, -327,
    -266, -205, -142, -79, -16, 48, 111, 174, 236, 297,
    357, 415, 472, 527, 580, 631, 679, 724, 766, 805,
    841, 874, 903, 928, 950, 968, 982, 992, 998, 1000
  >>

SinT ==
  <<
    0, 63, 127, 189, 251, 312, 372, 430, 486, 541,
    593, 643, 690, 735, 776, 815, 850, 881, 910, 934,
    955, 972, 985, 994, 999, 1000, 997, 990, 979, 964,
    945, 922, 896, 866, 833, 796, 756, 713, 667, 618,
    567, 514, 458, 401, 342, 282, 220, 158, 95, 32,
    -32, -95, -158, -220, -282, -342, -401, -458, -514, -567,
    -618, -667, -713, -756, -796, -833, -866, -896, -922, -945,
    -964, -979, -990, -997, -1000, -999, -994, -985, -972, -955,
    -934, -910, -881, -850, -815, -776, -735, -690, -643, -593,
    -541, -486, -430, -372, -312, -251, -189, -127, -63, 0
  >>

\* np.linalg.eigvalsh of the symmetric 2x2 matrix c, ascending
eigvalsh(c) ==
  LET tr   == c[1][1] + c[2][2]
      disc == ISqrt((c[1][1] - c[2][2]) * (c[1][1] - c[2][2])
                    + 4 * c[1][2] * c[1][2])
  IN  <<(tr - disc) \div 2, (tr + disc) \div 2>>

\* math.atan2(yy, xx), as <<cos, sin>> of the angle
atan2(yy, xx) ==
  LET h == ISqrt(xx * xx + yy * yy)
  IN  IF h = 0 THEN <<Scale, 0>>
      ELSE <<(xx * Scale) \div h, (yy * Scale) \div h>>

\* line 76: the rotation angle, as <<cos(theta), sin(theta)>>
Theta(c, l1) ==
  IF c[1][2] # 0 THEN atan2(l1 - c[1][1], c[1][2])
  ELSE IF c[1][1] < c[2][2] THEN <<0, Scale>> ELSE <<Scale, 0>>

\* variant: both coordinates translated by mu[0]
get_ellipse_shared_mean(m, c) ==
  LET ev    == eigvalsh(c)
      l1    == ev[2]
      l2    == ev[1]
      theta == Theta(c, l1)
      xs    == [k \in 1..NPoints |->
                  Mul(Mul(l1, theta[1]), CosT[k]) - Mul(Mul(l2, theta[2]), SinT[k])]
      ys    == [k \in 1..NPoints |->
                  Mul(Mul(l1, theta[2]), CosT[k]) + Mul(Mul(l2, theta[1]), SinT[k])]
  IN  go_Scatter([k \in 1..NPoints |-> m[1] + xs[k]],
                 [k \in 1..NPoints |-> m[1] + ys[k]], "lines", "black", "", "")

\* variant: semi-axes are the square roots of the eigenvalues
get_ellipse_sqrt_axes(m, c) ==
  LET ev    == eigvalsh(c)
      l1    == ISqrt(ev[2] * Scale)
      l2    == ISqrt(ev[1] * Scale)
      theta == Theta(c, ev[2])
      xs    == [k \in 1..NPoints |->
                  Mul(Mul(l1, theta[1]), CosT[k]) - Mul(Mul(l2, theta[2]), SinT[k])]
      ys    == [k \in 1..NPoints |->
                  Mul(Mul(l1, theta[2]), CosT[k]) + Mul(Mul(l2, theta[1]), SinT[k])]
  IN  go_Scatter([k \in 1..NPoints |-> m[1] + xs[k]],
                 [k \in 1..NPoints |-> m[2] + ys[k]], "lines", "black", "", "")

get_ellipse(m, c) ==
  LET ev    == eigvalsh(c)
      l1    == ev[2]                       \* [::-1]: the larger one first
      l2    == ev[1]
      theta == Theta(c, l1)
      xs    == [k \in 1..NPoints |->
                  Mul(Mul(l1, theta[1]), CosT[k]) - Mul(Mul(l2, theta[2]), SinT[k])]
      ys    == [k \in 1..NPoints |->
                  Mul(Mul(l1, theta[2]), CosT[k]) + Mul(Mul(l2, theta[1]), SinT[k])]
  IN  go_Scatter([k \in 1..NPoints |-> m[1] + xs[k]],
                 [k \in 1..NPoints |-> m[2] + ys[k]], "lines", "black", "", "")

-----------------------------------------------------------------------------
(* Stand-alone calls of get_ellipse on bounded inputs.                     *)

MeanVals  == {-1500, 0, 2000}
VarVals   == {250, 1000, 4000}
CovVals   == {-500, 0, 500}
ShiftVals == {<<1000, -500>>, <<-3000, 2500>>, <<0, 750>>}

PipeIdle ==
  /\ pc = "idle" /\ seeded = 0 /\ it = 0 /\ n = "" /\ f = ""
  /\ X = <<>> /\ y = <<>> /\ losses = <<>> /\ coefs = <<>> /\ iter = 0
  /\ lda = NoModel /\ gnb = NoModel
  /\ lda_prediction = <<>> /\ gnb_prediction = <<>>
  /\ lda_accuracy = -1 /\ gnb_accuracy = -1
  /\ i = 0 /\ fig = NoFig /\ artifacts = <<>> /\ error = ""
  /\ calls = <<>> /\ log = <<>>

InitEllipse ==
  /\ PipeIdle
  /\ mu \in MeanVals \X MeanVals
  /\ \E a \in VarVals, b \in CovVals, c \in VarVals :
       cov = <<<<a, b>>, <<b, c>>>>
  /\ shift \in ShiftVals
  /\ curve = NoCurve /\ curveShifted = NoCurve

EllipseCall ==
  /\ curve = NoCurve
  /\ curve' = get_ellipse(mu, cov)
  /\ UNCHANGED <<pipeVars, mu, cov, shift, curveShifted>>

EllipseCallShifted ==
  /\ curveShifted = NoCurve
  /\ curveShifted' = get_ellipse(<<mu[1] + shift[1], mu[2] + shift[2]>>, cov)
  /\ UNCHANGED <<pipeVars, mu, cov, shift, curve>>

NextEllipse == EllipseCall \/ EllipseCallShifted

SpecEllipse == InitEllipse /\ [][NextEllipse]_vars

-----------------------------------------------------------------------------
(* Properties of get_ellipse.                                              *)

\* C1: get_ellipse(m, C) yields exactly 100 points, and the k-th point of
\* get_ellipse(m + d, C) is the k-th point of get_ellipse(m, C) moved by d.
C1_TranslationInvariance ==
  /\ curve # NoCurve =>
       /\ DOMAIN curve.x = 1..100
       /\ DOMAIN curve.y = 1..100
  /\ (curve # NoCurve /\ curveShifted # NoCurve) =>
       /\ DOMAIN curveShifted.x = 1..100
       /\ DOMAIN curveShifted.y = 1..100
       /\ \A k \in 1..100 :
            /\ curveShifted.x[k] = curve.x[k] + shift[1]
            /\ curveShifted.y[k] = curve.y[k] + shift[2]

C1_Witness ==
  /\ curve # NoCurve /\ curveShifted # NoCurve
  /\ cov[1][2] # 0 /\ cov[1][1] # cov[2][2]
  /\ shift[1] # 0 /\ shift[2] # 0
  /\ curveShifted.x[26] = curve.x[26] + shift[1]

Circle == cov[1][2] = 0 /\ cov[1][1] = cov[2][2]

\* squared distance of the k-th point of the curve from the mean
Dist2(k) ==
  (curve.x[k] - mu[1]) * (curve.x[k] - mu[1])
    + (curve.y[k] - mu[2]) * (curve.y[k] - mu[2])

\* Each coordinate is off its real value by at most Eps(r): one unit for
\* each flooring division and r / (2 * Scale) for the rounding of the
\* cosine and sine tables; the squared distance of a point at real
\* distance r is then off r * r by at most Tol(r).
Eps(r) == 2 + r \div (2 * Scale)
Tol(r) == 4 * Eps(r) * r + 2 * Eps(r) * Eps(r)

OnCircle(r) == \A k \in 1..NPoints : Abs(Dist2(k) - r * r) <= Tol(r)

\* C2 as stated: in the circle case all points lie at the same distance
\* from the mean, and that distance is the square root of the eigenvalue.
C2_RadiusIsSqrtOfEigenvalue ==
  (curve # NoCurve /\ Circle) => OnCircle(ISqrt(cov[1][1] * Scale))

\* C2 as amended: in the circle case all points lie at the same distance
\* from the mean, and that distance is the shared eigenvalue itself.
C2_RadiusIsEigenvalue ==
  (curve # NoCurve /\ Circle) => OnCircle(cov[1][1])

C2_Witness ==
  /\ curve # NoCurve /\ Circle /\ cov[1][1] = 4000
  /\ curve.x[1] - mu[1] = 4000
  /\ curve.y[26] - mu[2] = 4000

-----------------------------------------------------------------------------
(* Collaborators: numpy, the dataset files and the IMLearn learners.       *)

\* data[:, :-1] and data[:, -1] of a loaded array (lines 37-38, 91-92)
Features(data) ==
  [k \in 1..Len(data) |-> SubSeq(data[k], 1, Len(data[k]) - 1)]
Labels(data) == [k \in 1..Len(data) |-> data[k][Len(data[k])]]

\* variant: np.arange(1, m + 1)
arange_from_one(m) == [k \in 1..m |-> k]

\* np.arange(m): 0, 1, ..., m - 1
arange(m) == [k \in 1..m |-> k - 1]

\* What linearly_separable.npy and linearly_inseparable.npy may hold: rows
\* <<x1, x2, label>>, label 1 or -1.  One array is fitted after a single
\* update, one is never fitted, one has no rows.
PerceptronData ==
  { <<<<2, 1, 1>>, <<-1, -2, -1>>>>,
    <<<<1, 0, 1>>, <<1, 0, -1>>>>,
    <<>> }

\* Perceptron.max_iter_, bounded
MaxIter == 3

Dot(a, b) == a[1] * b[1] + a[2] * b[2] + a[3] * b[3]

\* a sample with the intercept column in front
WithIntercept(x) == <<1>> \o x

Misclassified(w, x, label) == label * Dot(w, WithIntercept(x)) <= 0

\* Perceptron.loss(X, y): the misclassification rate of the coefficients w
Loss(w, XX, yy) ==
  (Cardinality({k \in 1..Len(XX) : Misclassified(w, XX[k], yy[k])}) * Scale)
    \div Len(XX)

\* the first sample the coefficients w misclassify, 0 when there is none
FirstMistake(w, XX, yy) ==
  IF \E k \in 1..Len(XX) : Misclassified(w, XX[k], yy[k])
  THEN CHOOSE k \in 1..Len(XX) :
         /\ Misclassified(w, XX[k], yy[k])
         /\ \A j \in 1..(k - 1) : ~Misclassified(w, XX[j], yy[j])
  ELSE 0

\* What gaussian1.npy and gaussian2.npy may hold: rows <<x1, x2, label>>,
\* features in 1/Scale, with one, two, three or four classes.
GaussianData ==
  { <<<<0, 0, 0>>, <<200, 0, 0>>>>,
    <<<<-100, 0, 0>>, <<100, 0, 0>>, <<5000, 5000, 1>>>>,
    <<<<-100, 0, 0>>, <<100, 0, 0>>, <<5000, 4900, 1>>, <<5000, 5100, 1>>,
      <<9900, -100, 2>>, <<10100, 100, 2>>>>,
    <<<<0, 0, 0>>, <<5000, 5000, 1>>, <<9900, -100, 2>>, <<10100, 100, 2>>,
      <<5000, -5000, 3>>>> }

RECURSIVE Sum(_, _)
Sum(fn, m) == IF m = 0 THEN 0 ELSE fn[m] + Sum(fn, m - 1)

RECURSIVE Sorted(_)
Sorted(S) ==
  IF S = {} THEN <<>>
  ELSE LET m == CHOOSE v \in S : \A z \in S : v <= z
       IN  <<m>> \o Sorted(S \ {m})

\* np.unique(y)
Unique(yy) == Sorted({yy[k] : k \in 1..Len(yy)})

ClassOf(classes, label) == CHOOSE k \in 1..Len(classes) : classes[k] = label

\* one row per class: the mean of the samples of the class
ClassMeans(XX, yy) ==
  LET classes == Unique(yy)
  IN  [k \in 1..Len(classes) |->
        LET cnt == Cardinality({j \in 1..Len(yy) : yy[j] = classes[k]})
        IN  [a \in 1..2 |->
              Sum([j \in 1..Len(yy) |->
                     IF yy[j] = classes[k] THEN XX[j][a] ELSE 0], Len(yy))
                \div cnt]]

\* the deviation of sample j from the mean of its class, in coordinate a
Dev(XX, yy, j, a) == XX[j][a] - ClassMeans(XX, yy)[ClassOf(Unique(yy), yy[j])][a]

\* GaussianNaiveBayes().fit(X, y): per class, the mean and the variance of
\* each feature
GaussianNaiveBayes_fit(XX, yy) ==
  LET classes == Unique(yy)
  IN  [classes_ |-> classes,
       mu_ |-> ClassMeans(XX, yy),
       cov_ |-> <<>>,
       vars_ |-> [k \in 1..Len(classes) |->
         LET cnt == Cardinality({j \in 1..Len(yy) : yy[j] = classes[k]})
         IN  [a \in 1..2 |->
               Sum([j \in 1..Len(yy) |->
                      IF yy[j] = classes[k]
                      THEN Mul(Dev(XX, yy, j, a), Dev(XX, yy, j, a)) ELSE 0],
                   Len(yy)) \div cnt]]]

\* LDA().fit(X, y): per class the mean, and one covariance pooled over
\* all classes
LDA_fit(XX, yy) ==
  [classes_ |-> Unique(yy),
   mu_ |-> ClassMeans(XX, yy),
   cov_ |-> [a \in 1..2 |-> [b \in 1..2 |->
     Sum([j \in 1..Len(yy) |-> Mul(Dev(XX, yy, j, a), Dev(XX, yy, j, b))],
         Len(yy)) \div Len(yy)]],
   vars_ |-> <<>>]

\* model.predict(X) on the training set: the labels a fitted model may
\* give, here every sample right or every sample put in the first class
Predictions(model, XX, yy) ==
  {yy, [k \in 1..Len(yy) |-> model.classes_[1]]}

\* IMLearn.metrics.accuracy(y_true, y_pred), in 1/Scale
accuracy(y_true, y_pred) ==
  (Cardinality({k \in 1..Len(y_true) : y_true[k] = y_pred[k]}) * Scale)
    \div Len(y_true)

\* np.diag(v) of a vector of length 2
Diag(v) == <<<<v[1], 0>>, <<0, v[2]>>>>

\* X[:, c] of a matrix, c counted from 0
Column(M, c) == [k \in 1..Len(M) |-> M[k][c + 1]]

-----------------------------------------------------------------------------
(* The script.                                                             *)

PerceptronRuns ==
  << <<"Linearly Separable", "linearly_separable.npy">>,
     <<"Linearly Inseparable", "linearly_inseparable.npy">> >>

GaussianFiles == <<"gaussian1.npy", "gaussian2.npy">>

\* the steps at which a collaborator (file system, learner, plotting
\* library, image writer) may raise
Fallible ==
  {"p_load", "p_fit", "p_plot", "p_write",
   "g_load", "g_fit", "g_plot", "g_ellipse", "g_write"}

Logged(step) == log' = Append(log, <<f, step>>)

\* variant: the exception is caught and the script goes on with the next
\* dataset
Raise_caught(e) ==
  /\ error' = e
  /\ pc' = IF pc \in {"p_load", "p_fit", "p_plot", "p_write"}
           THEN "p_for" ELSE "g_for"
  /\ UNCHANGED <<seeded, it, n, f, X, y, losses, coefs, iter, lda, gnb,
                 lda_prediction, gnb_prediction, lda_accuracy, gnb_accuracy,
                 i, fig, artifacts, calls, log, geomVars>>

\* An exception leaves every frame of the script: nothing catches it
\* (lines 138-141 and the bodies of both functions hold no try).
Raise(e) ==
  /\ error' = e
  /\ pc' = "halted"
  /\ UNCHANGED <<seeded, it, n, f, X, y, losses, coefs, iter, lda, gnb,
                 lda_prediction, gnb_prediction, lda_accuracy, gnb_accuracy,
                 i, fig, artifacts, calls, log, geomVars>>

\* line 139
Seed ==
  /\ pc = "seed"
  /\ seeded' = seeded + 1
  /\ pc' = "p_for"
  /\ UNCHANGED <<it, n, f, X, y, losses, coefs, iter, lda, gnb,
                 lda_prediction, gnb_prediction, lda_accuracy, gnb_accuracy,
                 i, fig, artifacts, error, calls, log, geomVars>>

\* line 34: the for statement of run_perceptron; when the list is
\* exhausted the function returns and its locals are gone
PerceptronFor ==
  /\ pc = "p_for"
  /\ IF it < Len(PerceptronRuns)
     THEN /\ it' = it + 1
          /\ n' = PerceptronRuns[it + 1][1]
          /\ f' = PerceptronRuns[it + 1][2]
          /\ pc' = "p_load"
          /\ UNCHANGED <<X, y, losses, coefs, iter, fig>>
     ELSE /\ it' = 0 /\ n' = "" /\ f' = ""
          /\ X' = <<>> /\ y' = <<>> /\ losses' = <<>> /\ coefs' = <<>>
          /\ iter' = 0 /\ fig' = NoFig
          /\ pc' = "g_for"
  /\ UNCHANGED <<seeded, lda, gnb, lda_prediction, gnb_prediction,
                 lda_accuracy, gnb_accuracy, i, artifacts, error, calls,
                 log, geomVars>>

\* lines 36-38
PerceptronLoad ==
  /\ pc = "p_load"
  /\ \E data \in PerceptronData :
       /\ X' = Features(data)
       /\ y' = Labels(data)
  /\ pc' = "p_init"
  /\ Logged("load")
  /\ UNCHANGED <<seeded, it, n, f, losses, coefs, iter, lda, gnb,
                 lda_prediction, gnb_prediction, lda_accuracy, gnb_accuracy,
                 i, fig, artifacts, error, calls, geomVars>>

\* lines 41-46 and the start of Perceptron.fit: a new list, a new
\* estimator with all coefficients zero
PerceptronInit ==
  /\ pc = "p_init"
  /\ losses' = <<>>
  /\ coefs' = <<0, 0, 0>>
  /\ iter' = 0
  /\ pc' = "p_fit"
  /\ Logged("init")
  /\ UNCHANGED <<seeded, it, n, f, X, y, lda, gnb,
                 lda_prediction, gnb_prediction, lda_accuracy, gnb_accuracy,
                 i, fig, artifacts, error, calls, geomVars>>

\* variant: the callback scores the sample it is handed
loss_callback_on_sample(estimator, sample, label) ==
  /\ losses' = Append(losses, Loss(estimator, <<sample>>, <<label>>))
  /\ UNCHANGED <<X, y>>

\* variant: the callback keeps the last value only
loss_callback_overwrite(estimator, sample, label) ==
  /\ losses' = <<Loss(estimator, X, y)>>
  /\ UNCHANGED <<X, y>>

\* lines 42-44
loss_callback(estimator, sample, label) ==
  /\ losses' = Append(losses, Loss(estimator, X, y))
  /\ UNCHANGED <<X, y>>

\* One iteration of Perceptron.fit (line 47): the first misclassified
\* sample updates the coefficients, then the callback is called with the
\* estimator and that sample.
FitIteration ==
  /\ pc = "p_fit"
  /\ iter < MaxIter
  /\ LET k == FirstMistake(coefs, X, y)
     IN  /\ k # 0
         /\ LET w == [j \in 1..3 |-> coefs[j] + y[k] * WithIntercept(X[k])[j]]
            IN  /\ coefs' = w
                /\ loss_callback(w, X[k], y[k])
                /\ calls' = Append(calls, <<n, Loss(w, X, y)>>)
  /\ iter' = iter + 1
  /\ Logged("fit")
  /\ UNCHANGED <<pc, seeded, it, n, f, lda, gnb,
                 lda_prediction, gnb_prediction, lda_accuracy, gnb_accuracy,
                 i, fig, artifacts, error, geomVars>>

\* Perceptron.fit returns: no sample is misclassified, or max_iter_ is hit
FitReturn ==
  /\ pc = "p_fit"
  /\ iter = MaxIter \/ FirstMistake(coefs, X, y) = 0
  /\ pc' = "p_plot"
  /\ Logged("fit")
  /\ UNCHANGED <<seeded, it, n, f, X, y, losses, coefs, iter, lda, gnb,
                 lda_prediction, gnb_prediction, lda_accuracy, gnb_accuracy,
                 i, fig, artifacts, error, calls, geomVars>>

\* fig.add_trace / fig.add_traces: the trace with its subplot cell
Placed(trace, row, col) == [trace |-> trace, row |-> row, col |-> col]

\* lines 50-58
PerceptronPlot ==
  /\ pc = "p_plot"
  /\ fig' = [NoFig EXCEPT
       !.traces = <<Placed(go_Scatter(arange(Len(losses)), losses,
                                      "lines", "", "", n), 1, 1)>>,
       !.title = "Perceptron Training Loss Progression",
       !.xaxis_title = "Iteration",
       !.yaxis_title = "Training Loss",
       !.legend_title = "Dataset"]
  /\ pc' = "p_write"
  /\ Logged("plot")
  /\ UNCHANGED <<seeded, it, n, f, X, y, losses, coefs, iter, lda, gnb,
                 lda_prediction, gnb_prediction, lda_accuracy, gnb_accuracy,
                 i, artifacts, error, calls, geomVars>>

\* variant: the label is left out of the file name
perceptron_image_fixed(label) == "perceptron_fit.png"

\* line 59: f"perceptron_fit_{n}.png"
perceptron_image(label) == "perceptron_fit_" \o label \o ".png"

\* fig.write_image(name)
Written(name, image) ==
  artifacts' = Append(artifacts, [name |-> name, image |-> image])

\* line 59
PerceptronWrite ==
  /\ pc = "p_write"
  /\ Written(perceptron_image(n), fig)
  /\ pc' = "p_for"
  /\ Logged("write")
  /\ UNCHANGED <<seeded, it, n, f, X, y, losses, coefs, iter, lda, gnb,
                 lda_prediction, gnb_prediction, lda_accuracy, gnb_accuracy,
                 i, fig, error, calls, geomVars>>

\* line 88: the for statement of compare_gaussian_classifiers
GaussianFor ==
  /\ pc = "g_for"
  /\ IF it < Len(GaussianFiles)
     THEN /\ it' = it + 1
          /\ f' = GaussianFiles[it + 1]
          /\ pc' = "g_load"
          /\ UNCHANGED <<X, y, lda, gnb, lda_prediction, gnb_prediction,
                         lda_accuracy, gnb_accuracy, i, fig>>
     ELSE /\ it' = 0 /\ f' = ""
          /\ X' = <<>> /\ y' = <<>> /\ lda' = NoModel /\ gnb' = NoModel
          /\ lda_prediction' = <<>> /\ gnb_prediction' = <<>>
          /\ lda_accuracy' = -1 /\ gnb_accuracy' = -1
          /\ i' = 0 /\ fig' = NoFig
          /\ pc' = "done"
  /\ UNCHANGED <<seeded, n, losses, coefs, iter, artifacts, error, calls,
                 log, geomVars>>

\* lines 90-92
GaussianLoad ==
  /\ pc = "g_load"
  /\ \E data \in GaussianData :
       /\ X' = Features(data)
       /\ y' = Labels(data)
  /\ pc' = "g_fit"
  /\ Logged("load")
  /\ UNCHANGED <<seeded, it, n, f, losses, coefs, iter, lda, gnb,
                 lda_prediction, gnb_prediction, lda_accuracy, gnb_accuracy,
                 i, fig, artifacts, error, calls, geomVars>>

\* lines 95-98
GaussianFit ==
  /\ pc = "g_fit"
  /\ lda' = LDA_fit(X, y)
  /\ lda_prediction' \in Predictions(lda', X, y)
  /\ gnb' = GaussianNaiveBayes_fit(X, y)
  /\ gnb_prediction' \in Predictions(gnb', X, y)
  /\ pc' = "g_plot"
  /\ Logged("fit")
  /\ UNCHANGED <<seeded, it, n, f, X, y, losses, coefs, iter,
                 lda_accuracy, gnb_accuracy,
                 i, fig, artifacts, error, calls, geomVars>>

\* line 109
SubplotTitles == <<"Gaussian Naive Bayes", "LDA">>

\* lines 103-124: the accuracies, the two panels, the data points and the
\* class means of both models
GaussianPlot ==
  /\ pc = "g_plot"
  /\ lda_accuracy' = accuracy(y, lda_prediction)
  /\ gnb_accuracy' = accuracy(y, gnb_prediction)
  /\ fig' = [NoFig EXCEPT
       !.subplot_titles = SubplotTitles,
       !.traces =
         << Placed(go_Scatter(Column(X, 0), Column(X, 1), "markers", y,
                              "circle", "Data Points"), 1, 1),
            Placed(go_Scatter(Column(X, 0), Column(X, 1), "markers", y,
                              "circle", "Data Points"), 1, 2),
            Placed(go_Scatter(Column(gnb.mu_, 0), Column(gnb.mu_, 1),
                              "markers", "black", "x",
                              "Gaussian Naive Bayes Means"), 1, 1),
            Placed(go_Scatter(Column(lda.mu_, 0), Column(lda.mu_, 1),
                              "markers", "black", "x", "LDA Means"), 1, 2) >>]
  /\ i' = 0
  /\ pc' = "g_ellipse"
  /\ Logged("plot")
  /\ UNCHANGED <<seeded, it, n, f, X, y, losses, coefs, iter, lda, gnb,
                 lda_prediction, gnb_prediction,
                 artifacts, error, calls, geomVars>>

\* variant: one ellipse per fitted class
EllipseCount_per_class == Len(gnb.mu_)

\* line 127: range(3)
EllipseCount == 3

\* variant: the two ellipses go to the opposite panels
EllipsePair_swapped(k) ==
  << Placed(get_ellipse(gnb.mu_[k + 1], Diag(gnb.vars_[k + 1])), 1, 2),
     Placed(get_ellipse(lda.mu_[k + 1], lda.cov_), 1, 1) >>

\* lines 128-130: the two ellipses of class index k, with their cells
EllipsePair(k) ==
  << Placed(get_ellipse(gnb.mu_[k + 1], Diag(gnb.vars_[k + 1])), 1, 1),
     Placed(get_ellipse(lda.mu_[k + 1], lda.cov_), 1, 2) >>

\* whether arr[k] is a valid access, k counted from 0
InRange(arr, k) == k < Len(arr)

\* lines 127-130: one iteration of the ellipse loop; an index past the
\* fitted classes raises IndexError
EllipseIteration ==
  /\ pc = "g_ellipse"
  /\ IF InRange(gnb.mu_, i) /\ InRange(gnb.vars_, i) /\ InRange(lda.mu_, i)
     THEN /\ fig' = [fig EXCEPT !.traces = fig.traces \o EllipsePair(i)]
          /\ i' = i + 1
          /\ pc' = IF i + 1 = EllipseCount THEN "g_write" ELSE "g_ellipse"
          /\ Logged("plot")
          /\ UNCHANGED <<seeded, it, n, f, X, y, losses, coefs, iter, lda,
                         gnb, lda_prediction, gnb_prediction, lda_accuracy,
                         gnb_accuracy, artifacts, error, calls, geomVars>>
     ELSE Raise("IndexError")

\* f[:-4]
Stem(name) == SubSeq(name, 1, Len(name) - 4)

\* line 135
comparison_image(name) ==
  "lda_and_gaussian_naive_bayes_comparison." \o Stem(name) \o ".png"

\* lines 132-135
GaussianWrite ==
  /\ pc = "g_write"
  /\ fig' = [fig EXCEPT
       !.scaleanchor = "x", !.scaleratio = 1,
       !.title = "$\\text{Comparing Gaussian Classifiers - " \o Stem(f)
                   \o " dataset}$",
       !.width = 1000, !.height = 500, !.showlegend = FALSE]
  /\ Written(comparison_image(f), fig')
  /\ pc' = "g_for"
  /\ Logged("write")
  /\ UNCHANGED <<seeded, it, n, f, X, y, losses, coefs, iter, lda, gnb,
                 lda_prediction, gnb_prediction, lda_accuracy, gnb_accuracy,
                 i, error, calls, geomVars>>

\* a collaborator raises at the current step (a missing file, a learner
\* that cannot fit, a figure that cannot be drawn or written)
ExternalFailure ==
  /\ pc \in Fallible
  /\ pc = "g_ellipse" => InRange(gnb.mu_, i)
  /\ Raise("external")

GeomIdle ==
  /\ mu = <<0, 0>> /\ cov = <<<<0, 0>>, <<0, 0>>>> /\ shift = <<0, 0>>
  /\ curve = NoCurve /\ curveShifted = NoCurve

Init ==
  /\ pc = "seed" /\ seeded = 0 /\ it = 0 /\ n = "" /\ f = ""
  /\ X = <<>> /\ y = <<>> /\ losses = <<>> /\ coefs = <<>> /\ iter = 0
  /\ lda = NoModel /\ gnb = NoModel
  /\ lda_prediction = <<>> /\ gnb_prediction = <<>>
  /\ lda_accuracy = -1 /\ gnb_accuracy = -1
  /\ i = 0 /\ fig = NoFig /\ artifacts = <<>> /\ error = ""
  /\ calls = <<>> /\ log = <<>>
  /\ GeomIdle

Next ==
  \/ Seed
  \/ PerceptronFor
  \/ PerceptronLoad
  \/ PerceptronInit
  \/ FitIteration
  \/ FitReturn
  \/ PerceptronPlot
  \/ PerceptronWrite
  \/ GaussianFor
  \/ GaussianLoad
  \/ GaussianFit
  \/ GaussianPlot
  \/ EllipseIteration
  \/ GaussianWrite
  \/ ExternalFailure

Spec == Init /\ [][Next]_vars

-----------------------------------------------------------------------------
(* Properties of the script.                                               *)

\* the values loss_callback was called to record for the dataset label
TraceOf(label) ==
  LET mine == SelectSeq(calls, LAMBDA c : c[1] = label)
  IN  [k \in 1..Len(mine) |-> mine[k][2]]

InPerceptronFit == pc \in {"p_fit", "p_plot", "p_write"}

C3_TraceIsCalls ==
  /\ (pc = "p_fit" /\ iter = 0) => losses = <<>>
  /\ InPerceptronFit =>
       /\ Len(losses) = iter
       /\ Len(losses) = Len(TraceOf(n))
       /\ \A k \in 1..Len(losses) : losses[k] = TraceOf(n)[k]

C3_AppendOnly ==
  (pc = "p_fit") =>
     /\ Len(calls') = Len(calls) + 1 =>
          /\ Len(losses') = Len(losses) + 1
          /\ losses'[Len(losses')] = calls'[Len(calls')][2]
     /\ Len(calls') = Len(calls) => losses' = losses
     /\ Len(losses') >= Len(losses)
     /\ \A k \in 1..Len(losses) : losses'[k] = losses[k]

\* C3: the loss trace of a dataset is empty when its training starts; after
\* k calls of loss_callback it holds exactly the k values of those calls in
\* call order; a call appends one value and no entry is ever removed,
\* changed or reordered; no value of another dataset's calls is in it.
C3_LossTrace == [](C3_TraceIsCalls) /\ [][C3_AppendOnly]_vars

C3_Witness ==
  /\ pc = "p_plot" /\ n = "Linearly Inseparable"
  /\ Len(losses) >= 3
  /\ losses[1] # losses[2]
  /\ Len(TraceOf("Linearly Separable")) >= 1
  /\ Len(calls) > Len(losses)

\* C4: a call of loss_callback appends the estimator's loss over the whole
\* training set (X, y) of the dataset being fitted, whatever sample it was
\* handed, and changes nothing else: X, y and all other state of the
\* script stay as they were (the coefficients are those of the fit's
\* update).
C4_CallbackEffect ==
  [][Len(calls') = Len(calls) + 1 =>
       /\ losses' = Append(losses, Loss(coefs', X, y))
       /\ X' = X /\ y' = y
       /\ UNCHANGED <<pc, seeded, it, n, f, lda, gnb, lda_prediction,
                      gnb_prediction, lda_accuracy, gnb_accuracy, i, fig,
                      artifacts, error>>]_vars

\* the last value recorded is one no single sample can give
C4_Witness ==
  /\ pc = "p_fit" /\ Len(losses) >= 1
  /\ losses[Len(losses)] = 500
  /\ Len(X) = 2

\* the one line of a training-curve figure shows the trace tr under label
CurveShows(image, tr, label) ==
  /\ Len(image.traces) = 1
  /\ LET t == image.traces[1].trace
     IN  /\ DOMAIN t.x = 1..Len(tr)
         /\ DOMAIN t.y = 1..Len(tr)
         /\ \A k \in 1..Len(tr) : t.x[k] = k - 1 /\ t.y[k] = tr[k]
         /\ t.mode = "lines"
         /\ t.name = label

\* C5: the training-curve figure holds one line, labelled with the dataset
\* label, of exactly len(trace) points: x is 0, 1, ..., len(trace) - 1 and
\* the y of point k is trace value k; so does the image written.
C5_CurvePoints ==
  /\ pc = "p_write" => CurveShows(fig, losses, n)
  /\ (pc = "p_for" /\ it >= 1) =>
       /\ Len(artifacts) = it
       /\ CurveShows(artifacts[it].image, losses, n)

C5_Witness ==
  /\ pc = "p_for" /\ it = 2 /\ Len(losses) >= 3
  /\ artifacts[2].image.traces[1].trace.x[3] = 2
  /\ Len(artifacts[1].image.traces[1].trace.x) = 0

\* the traces of an image in one column
Panel(image, col) == SelectSeq(image.traces, LAMBDA t : t.col = col)

IsPoints(t)  == t.trace.mode = "markers" /\ t.trace.marker_symbol = "circle"
IsMeans(t)   == t.trace.mode = "markers" /\ t.trace.marker_symbol = "x"
IsEllipse(t) == t.trace.mode = "lines"

Count(seq, Test(_)) == Len(SelectSeq(seq, Test))

\* The 99 points of a curve before its closing point average to the
\* centre, up to the rounding of each point.
Centred(t, m) ==
  /\ Abs(Sum(t.x, NPoints - 1) - (NPoints - 1) * m[1]) <= 3 * (NPoints - 1)
  /\ Abs(Sum(t.y, NPoints - 1) - (NPoints - 1) * m[2]) <= 3 * (NPoints - 1)

\* a panel of the comparison figure for the model with the given means,
\* whose class k has covariance covs[k]
PanelShows(image, col, means, covs) ==
  LET panel == Panel(image, col)
      ells  == SelectSeq(panel, IsEllipse)
  IN  /\ Len(panel) = 5
      /\ Count(panel, IsPoints) = 1
      /\ Count(panel, IsMeans) = 1
      /\ Len(ells) = 3
      /\ \A t \in {panel[k] : k \in 1..Len(panel)} :
           /\ t.row = 1
           /\ IsPoints(t) => /\ t.trace.marker_color = y
                             /\ t.trace.x = Column(X, 0)
                             /\ t.trace.y = Column(X, 1)
           /\ IsMeans(t) => /\ t.trace.x = Column(means, 0)
                            /\ t.trace.y = Column(means, 1)
      /\ \A k \in 1..3 :
           /\ ells[k].trace = get_ellipse(means[k], covs[k])
           /\ Centred(ells[k].trace, means[k])

ThreeClasses == Cardinality({y[k] : k \in 1..Len(y)}) = 3

ComparisonShows(image) ==
  /\ Len(image.traces) = 10
  /\ PanelShows(image, 1, gnb.mu_, [k \in 1..3 |-> Diag(gnb.vars_[k])])
  /\ PanelShows(image, 2, lda.mu_, [k \in 1..3 |-> lda.cov_])

\* C6: for a 3-class dataset each of the two panels holds one scatter of
\* the data coloured by y, one marker layer of class means and 3 ellipses;
\* panel 1 is the per-class-diagonal model, ellipse k about its mean k from
\* diag(vars_[k]); panel 2 the shared-covariance model, ellipse k about its
\* mean k from the shared covariance.
C6_PanelLayers ==
  /\ (pc = "g_write" /\ ThreeClasses) => ComparisonShows(fig)
  /\ (pc = "g_for" /\ it >= 1 /\ ThreeClasses) =>
       ComparisonShows(artifacts[Len(artifacts)].image)

C6_Witness ==
  /\ pc = "g_for" /\ it = 2 /\ ThreeClasses /\ Len(artifacts) = 4
  /\ lda.cov_[1][2] # 0
  /\ gnb.vars_[1] # gnb.vars_[2]

\* whether the string s holds the string sub
Contains(s, sub) ==
  \E k \in 1..(Len(s) - Len(sub) + 1) : SubSeq(s, k, k + Len(sub) - 1) = sub

\* an accuracy a (in 1/Scale) written per mille, in percent, or as a
\* fraction of 1
Renderings(a) ==
  {ToString(a), ToString(a \div 10),
   ToString(a \div Scale) \o "." \o ToString((a % Scale) \div 100)}

SpecifiesAccuracy(title, a) == \E r \in Renderings(a) : Contains(title, r)

JustWritten == pc = "g_for" /\ it >= 1

\* C7: in the figure written for a dataset the title names the dataset and
\* the title of each panel names the algorithm and gives the accuracy
\* computed for that panel's model.
C7_TitlesGiveAccuracy ==
  JustWritten =>
    LET image == artifacts[Len(artifacts)].image
    IN  /\ Contains(image.title, Stem(f))
        /\ Contains(image.subplot_titles[1], "Gaussian Naive Bayes")
        /\ SpecifiesAccuracy(image.subplot_titles[1], gnb_accuracy)
        /\ Contains(image.subplot_titles[2], "LDA")
        /\ SpecifiesAccuracy(image.subplot_titles[2], lda_accuracy)

\* the datasets in the order of the run, and the images they give
RunOrder ==
  <<"linearly_separable.npy", "linearly_inseparable.npy",
    "gaussian1.npy", "gaussian2.npy">>

ImageNames ==
  <<"perceptron_fit_Linearly Separable.png",
    "perceptron_fit_Linearly Inseparable.png",
    "lda_and_gaussian_naive_bayes_comparison.gaussian1.png",
    "lda_and_gaussian_naive_bayes_comparison.gaussian2.png">>

Rank(file) == CHOOSE k \in 1..4 : RunOrder[k] = file

C8_Outcome ==
  /\ pc = "done" => error = "" /\ Len(artifacts) = 4
  /\ pc # "halted" => error = ""
  /\ pc = "halted" =>
       /\ error # ""
       /\ Len(artifacts) = Rank(f) - 1
       /\ \A k \in 1..Len(artifacts) :
            \A j \in Rank(f)..4 : artifacts[k].name # ImageNames[j]

C8_Step ==
  /\ pc # "halted" /\ pc # "done"
  /\ error' # "" =>
       /\ pc' = "halted"
       /\ artifacts' = artifacts
       /\ log' = log

\* C8: a failure at any step of any dataset ends the run at once: the run
\* either completes with four images written, or halts at the first
\* failure, after which no step runs and no image exists for the failing
\* dataset or any later one.
C8_FailFast == [](C8_Outcome) /\ [][C8_Step]_vars

C8_Witness ==
  /\ pc = "halted" /\ error = "external"
  /\ f = "gaussian2.npy" /\ Len(artifacts) = 3
  /\ log[Len(log)] = <<"gaussian2.npy", "plot">>

Writes == SelectSeq(log, LAMBDA e : e[2] = "write")

\* C9: the seed is set once, before any step; the datasets are processed
\* one after another in the fixed order, each ending with the write of its
\* image under a name of its own; a dataset's trace, estimator, fitted
\* models and figure hold nothing of an earlier dataset.
C9_OneDatasetAtATime ==
  /\ pc = "seed" => seeded = 0 /\ log = <<>>
  /\ pc # "seed" => seeded = 1
  /\ \A a, b \in 1..Len(log) :
       a < b =>
         /\ Rank(log[a][1]) <= Rank(log[b][1])
         /\ log[a][2] = "write" => Rank(log[a][1]) < Rank(log[b][1])
  /\ Len(artifacts) = Len(Writes)
  /\ \A k \in 1..Len(artifacts) :
       /\ Writes[k][1] = RunOrder[k]
       /\ artifacts[k].name = ImageNames[k]
       /\ \A j \in 1..Len(artifacts) :
            j # k => artifacts[j].name # artifacts[k].name
       /\ Len(artifacts[k].image.traces) = IF k <= 2 THEN 1 ELSE 10
       /\ k <= 2 =>
            artifacts[k].image.traces[1].trace.y
              = TraceOf(PerceptronRuns[k][1])
  /\ (pc = "p_fit" /\ iter = 0) => losses = <<>> /\ coefs = <<0, 0, 0>>
  /\ pc = "p_write" => Len(fig.traces) = 1
  /\ pc \in {"g_plot", "g_ellipse", "g_write"} =>
       /\ lda.classes_ = Unique(y) /\ gnb.classes_ = Unique(y)
       /\ Len(lda.mu_) = Len(Unique(y)) /\ Len(gnb.mu_) = Len(Unique(y))
  /\ pc = "g_write" => Len(fig.traces) = 10

C9_Witness ==
  /\ pc = "done" /\ Len(artifacts) = 4 /\ seeded = 1
  /\ Len(TraceOf("Linearly Separable")) = 1
  /\ Len(TraceOf("Linearly Inseparable")) >= 3
  /\ Len(artifacts[3].image.traces[3].trace.x) = 4
  /\ Len(artifacts[4].image.traces[3].trace.x) = 3

C10_Indices ==
  /\ pc = "g_ellipse" => i \in 0..2 /\ i <= Len(gnb.mu_)
  /\ pc = "g_write" =>
       /\ Len(gnb.mu_) >= 3
       /\ Count(Panel(fig, 1), IsEllipse) = 3
       /\ Count(Panel(fig, 2), IsEllipse) = 3
  /\ \A k \in 3..Len(artifacts) :
       /\ Len(artifacts[k].image.traces[3].trace.x) >= 3
       /\ Count(Panel(artifacts[k].image, 1), IsEllipse) = 3
       /\ Count(Panel(artifacts[k].image, 2), IsEllipse) = 3

C10_Step ==
  /\ (pc = "g_ellipse" /\ i = Len(gnb.mu_)) =>
       /\ Len(gnb.mu_) < 3
       /\ pc' = "halted" /\ error' = "IndexError"
       /\ artifacts' = artifacts
  /\ error' = "IndexError" =>
       pc = "g_ellipse" /\ i = Len(gnb.mu_) /\ Len(gnb.mu_) < 3
  /\ (pc = "g_ellipse" /\ pc' # "halted") =>
       /\ i' = i + 1
       /\ Len(fig'.traces) = Len(fig.traces) + 2
  /\ (pc = "g_write" /\ pc' # "halted") =>
       /\ Len(artifacts') = Len(artifacts) + 1
       /\ artifacts'[Len(artifacts')].name = ImageNames[2 + it]

\* C10: the ellipse loop takes the class indices 0, 1, 2 whatever the
\* number c of fitted classes: with c > 3 each panel gets exactly 3
\* ellipses and the image is written; with c < 3 reading the mean of class
\* index c raises an out-of-range error and no image of that dataset is
\* written.
C10_FixedEllipseLoop == [](C10_Indices) /\ [][C10_Step]_vars

C10_Witness ==
  /\ pc = "halted" /\ error = "IndexError"
  /\ Len(gnb.mu_) = 2 /\ i = 2
  /\ Len(artifacts) = 3
  /\ Len(artifacts[3].image.traces[3].trace.x) = 4
  /\ Count(Panel(artifacts[3].image, 1), IsEllipse) = 3

====
